---- MODULE Spec2Model ----
(***************************************************************************)
(* Template acquisition and materialization pipeline of specify_cli:       *)
(*   templates/discovery.py  find_local_template                           *)
(*   templates/download.py   _github_auth_headers, handle_vscode_settings, *)
(*                           download_template_from_github,                *)
(*                           download_and_extract_template                 *)
(* The pipeline is single-threaded; pc is the position of the one run.     *)
(***************************************************************************)
EXTENDS Integers, Sequences, FiniteSets, TLC

VARIABLES
    pc,             \* position of the run in the code
    outcome,        \* "running" | "returned" | "exit1" | "raised"
    exc,            \* the exception in flight: "none" | "Exit" | "KeyError" | "OSError"
    fail,           \* the step at which the run failed ("none" while it has not)
    ai_assistant,   \* parameter
    script_type,    \* parameter
    is_current_dir, \* parameter: merge into the existing current directory
    verbose,        \* parameter
    tracker,        \* parameter: a progress reporter is supplied
    merger,         \* merge_json_files: "none" | "ok" | "raises" | "bad_result"
    cli_token,      \* parameter github_token (None or a string)
    env,            \* environment: [GH_TOKEN, GITHUB_TOKEN] (None or a string)
    search_dir,     \* parameter of find_local_template: "None" or a directory id
    templates,      \* template directories: dir id -> [exists, files]
    fs,             \* the file system under the current working directory
    fs0,            \* fs as it was when the run started
    archive,        \* the archive the run will obtain: [ok, entries]
    zip_path,       \* where the resolved archive lies ([loc |-> "none"] before)
    meta,           \* provenance record ([source |-> "none"] before resolution)
    release_data,   \* parsed body of the release-metadata response
    asset,          \* the selected release asset
    chunks,         \* chunks of the asset stream written so far
    requests,       \* HTTP requests issued so far: sequence of [url, headers]
    staging,        \* merge mode: the private temporary directory (a tree)
    todo,           \* the extraction loop: [src, items, cur, sub] still to process
    signals,        \* reporter calls so far: sequence of <<key, call>>
    located,        \* result of the last find_local_template call
    cleanups,       \* number of times the cleanup decision was taken
    merge_calls     \* destination files the merge collaborator was called for

vars == <<pc, outcome, exc, fail, ai_assistant, script_type, is_current_dir,
          verbose, tracker, merger, cli_token, env, search_dir, templates,
          fs, fs0, archive, zip_path, meta, release_data, asset,
          chunks, requests, staging, todo, signals, located, cleanups,
          merge_calls>>

\* Optional[str]: a string is a sequence of characters, None a sequence no
\* string equals
None == <<"<None>">>

(***************************************************************************)
(* Bounds of the model.                                                    *)
(***************************************************************************)
MaxTokLen == 2      \* longest token string of a token source
MaxFiles == 2       \* most files in one template directory
MaxChunks == 2      \* most chunks of an asset stream
MaxAssets == 2      \* most assets listed by a release

(***************************************************************************)
(* Strings are sequences of characters.                                    *)
(***************************************************************************)
SP == " "

RECURSIVE LStrip(_)
LStrip(s) == IF s # <<>> /\ Head(s) = SP THEN LStrip(Tail(s)) ELSE s

RECURSIVE RStrip(_)
RStrip(s) ==
    IF s # <<>> /\ s[Len(s)] = SP THEN RStrip(SubSeq(s, 1, Len(s) - 1)) ELSE s

\* str.strip()
Strip(s) == RStrip(LStrip(s))

\* Python truthiness of an Optional[str]
Truthy(s) == s # None /\ s # <<>>

\* a or b
PyOr(a, b) == IF Truthy(a) THEN a ELSE b

\* all strings over alphabet of length 0..n
StringsUpTo(alphabet, n) == UNION {[1..k -> alphabet] : k \in 0..n}

(***************************************************************************)
(* _github_auth_headers: the header dict is a set of <<name, value>>.      *)
(***************************************************************************)
ResolveToken(cli, e) ==
    LET raw == PyOr(PyOr(PyOr(cli, e.GH_TOKEN), e.GITHUB_TOKEN), <<>>)
        token == Strip(raw)
    IN IF token # <<>> THEN token ELSE None

Bearer(token) == <<"Bearer", SP>> \o token

_github_auth_headers(cli, e) ==
    LET token == ResolveToken(cli, e)
    IN IF token # None THEN {<<"Authorization", Bearer(token)>>} ELSE {}

(***************************************************************************)
(* Template file names.  A name is the text                                *)
(*   prefix agent "-" script "-v" ver[1] "." ver[2] ... tail               *)
(* kept as its parts; each component of ver is a string of characters.     *)
(***************************************************************************)
TemplatePrefix == "spec-kit-template-"

TN(prefix, agent, script, ver, tail) ==
    [prefix |-> prefix, agent |-> agent, script |-> script, ver |-> ver,
     tail |-> tail]

Digits == {"0", "1", "2", "3", "4", "5", "6", "7", "8", "9"}

DigitVal(c) ==
    CASE c = "0" -> 0 [] c = "1" -> 1 [] c = "2" -> 2 [] c = "3" -> 3
      [] c = "4" -> 4 [] c = "5" -> 5 [] c = "6" -> 6 [] c = "7" -> 7
      [] c = "8" -> 8 [] c = "9" -> 9

\* int(text) of a string of decimal digits
RECURSIVE ParseInt(_)
ParseInt(s) ==
    IF s = <<>> THEN 0
    ELSE 10 * ParseInt(SubSeq(s, 1, Len(s) - 1)) + DigitVal(s[Len(s)])

\* \d+
IsDigits(s) == s # <<>> /\ \A i \in 1..Len(s) : s[i] \in Digits

\* tails that end with ".zip"
EndsWithZip(tail) == tail \in {".zip", "-rc.zip"}

\* dir_path.glob(f"{pattern}*.zip") with
\* pattern = f"spec-kit-template-{ai_assistant}-{script_type}-v"
GlobMatches(name, agent, script) ==
    /\ name.prefix = TemplatePrefix
    /\ name.agent = agent
    /\ name.script = script
    /\ EndsWithZip(name.tail)

\* version_pattern.match(file.name):
\* ^spec-kit-template-{agent}-{script}-v(\d+\.\d+\.\d+)\.zip$
VersionPatternMatches(name, agent, script) ==
    /\ name.prefix = TemplatePrefix
    /\ name.agent = agent
    /\ name.script = script
    /\ Len(name.ver) = 3
    /\ \A i \in 1..3 : IsDigits(name.ver[i])
    /\ name.tail = ".zip"

\* tuple(map(int, version_str.split('.')))
VersionParts(name) == [i \in 1..Len(name.ver) |-> ParseInt(name.ver[i])]

\* the order of Python tuples of three integers: a > b
TupleGT(a, b) ==
    \/ a[1] > b[1]
    \/ a[1] = b[1] /\ a[2] > b[2]
    \/ a[1] = b[1] /\ a[2] = b[2] /\ a[3] > b[3]

\* the order a sort by the version text would give: a > b, character by
\* character
RECURSIVE StrGT(_, _)
StrGT(a, b) ==
    IF a = <<>> THEN FALSE
    ELSE IF b = <<>> THEN TRUE
    ELSE IF Head(a) # Head(b)
         THEN IF Head(a) \in Digits /\ Head(b) \in Digits
              THEN DigitVal(Head(a)) > DigitVal(Head(b))
              ELSE Head(b) = "."
    ELSE StrGT(Tail(a), Tail(b))

\* the version text "1.10.0"
VersionStr(name) ==
    name.ver[1] \o <<".">> \o name.ver[2] \o <<".">> \o name.ver[3]

NoFile == [dir |-> "none"]

InstallDir == "inst"   \* get_installation_templates_dir()
ExtraDir == "extra"    \* a search_dir other than the installation directory

\* a faulty variant: only the installation directory is searched
SearchDirs_InstallOnly(sd) == <<InstallDir>>

\* search_dirs, in order
SearchDirs(sd) ==
    IF sd # "None" /\ sd # InstallDir THEN <<InstallDir, sd>> ELSE <<InstallDir>>

\* all_matching_files, as a set of [idx, dir, name, parts]; idx is the place
\* of the directory in search_dirs
AllMatchingFiles(tpl, agent, script, sd) ==
    LET dirs == SearchDirs(sd)
    IN { [idx |-> i, dir |-> dirs[i], name |-> n, parts |-> VersionParts(n)] :
           <<i, n>> \in
             { p \in (1..Len(dirs)) \X UNION {tpl[d].files : d \in DOMAIN tpl} :
                 /\ tpl[dirs[p[1]]].exists
                 /\ p[2] \in tpl[dirs[p[1]]].files
                 /\ GlobMatches(p[2], agent, script)
                 /\ VersionPatternMatches(p[2], agent, script) } }

\* a faulty variant: the versions compared as text
SortKeyGT_Text(a, b) == StrGT(VersionStr(a.name), VersionStr(b.name))

\* the sort key comparison of all_matching_files.sort(key=x[1], reverse=True)
SortKeyGT(a, b) == TupleGT(a.parts, b.parts)

\* The files find_local_template can return: the sort is stable, so among the
\* files of greatest version the first collected wins; directories are
\* collected in order, the files of one directory in the order the file
\* system lists them (any).
find_local_template(tpl, agent, script, sd) ==
    LET all == AllMatchingFiles(tpl, agent, script, sd)
        best == {c \in all : \A o \in all : ~SortKeyGT(o, c)}
        first == {c \in best : \A o \in best : c.idx <= o.idx}
    IN IF all = {} THEN {NoFile}
       ELSE {[dir |-> c.dir, name |-> c.name] : c \in first}

(***************************************************************************)
(* The file system: a function from paths (sequences of names, relative    *)
(* to the current working directory) to nodes.  <<>> is the directory      *)
(* itself.  A file's content is [text, valid, json]: valid says the text   *)
(* parses as JSON, json is the parsed object as a set of <<key, value>>.   *)
(***************************************************************************)
DirNode == [kind |-> "dir"]

FileNode(c) == [kind |-> "file", data |-> c]

Plain(tag) == [text |-> tag, valid |-> FALSE, json |-> {}]

Json(obj, fmt) == [text |-> fmt, valid |-> TRUE, json |-> obj]

EmptyTree == (<<>> :> DirNode)

IsPrefix(p, q) == Len(p) <= Len(q) /\ SubSeq(q, 1, Len(p)) = p

Parent(p) == SubSeq(p, 1, Len(p) - 1)

Basename(p) == p[Len(p)]

Exists(f, p) == p \in DOMAIN f

IsDir(f, p) == p \in DOMAIN f /\ f[p].kind = "dir"

IsFile(f, p) == p \in DOMAIN f /\ f[p].kind = "file"

\* p and everything below it
Under(f, p) == {q \in DOMAIN f : IsPrefix(p, q)}

\* path.iterdir(), as names
Children(f, p) == {q[Len(p) + 1] : q \in {r \in DOMAIN f : Len(r) = Len(p) + 1 /\ IsPrefix(p, r)}}

\* the part of q below p
Rel(p, q) == SubSeq(q, Len(p) + 1, Len(q))

\* the proper ancestors of q that lie strictly below p
DirsBetween(p, q) == {SubSeq(q, 1, k) : k \in (Len(p) + 1)..(Len(q) - 1)}

Restrict(f, S) == [q \in S |-> f[q]]

\* shutil.rmtree(p) / p.unlink(): p and everything below it is gone
Remove(f, p) == Restrict(f, DOMAIN f \ Under(f, p))

\* the tree f with the subtree of g at src placed at dst (dst is free in f)
Graft(f, g, src, dst) ==
    LET moved == {dst \o Rel(src, q) : q \in Under(g, src)}
    IN [q \in DOMAIN f \cup moved |->
          IF q \in moved THEN g[src \o Rel(dst, q)] ELSE f[q]]

\* os.rename(src, dst) of a tree onto a free name
Rename(f, src, dst) == Graft(Remove(f, src), f, src, dst)

\* shutil.move(src, dst) of a directory: [ok, fs]
ShutilMove(f, src, dst) ==
    IF IsDir(f, dst)
    THEN LET real_dst == dst \o <<Basename(src)>>
         IN IF Exists(f, real_dst)
            THEN [ok |-> FALSE, fs |-> f]
            ELSE [ok |-> TRUE, fs |-> Rename(f, src, real_dst)]
    ELSE IF Exists(f, dst)
    THEN [ok |-> FALSE, fs |-> f]   \* rename and copytree both fail on a file
    ELSE [ok |-> TRUE, fs |-> Rename(f, src, dst)]

\* writing one file at path p with content c, creating p's missing ancestors
\* below base
WriteFile(f, base, p, c) ==
    LET dirs == DirsBetween(base, p)
    IN [q \in DOMAIN f \cup dirs \cup {p} |->
          IF q = p THEN FileNode(c)
          ELSE IF q \in dirs THEN DirNode
          ELSE f[q]]

\* zip_ref.extractall(at) of the first k entries
RECURSIVE ExtractEntries(_, _, _, _)
ExtractEntries(f, at, entries, k) ==
    IF k = 0 THEN f
    ELSE WriteFile(ExtractEntries(f, at, entries, k - 1), at,
                   at \o entries[k].path, entries[k].data)

\* shutil.copy2(src, dst) of content c named base: [ok, fs].  A dst that is
\* a directory receives the file under its own name.
Copy2(f, c, name, dst) ==
    LET real == IF IsDir(f, dst) THEN dst \o <<name>> ELSE dst
    IN IF IsDir(f, real) \/ ~IsDir(f, Parent(real))
       THEN [ok |-> FALSE, fs |-> f]
       ELSE [ok |-> TRUE, fs |-> WriteFile(f, Parent(real), real, c)]

\* dest_file.parent.mkdir(parents=True, exist_ok=True): fails when a
\* component of the path is a file
MkdirP(f, d) ==
    LET comps == {SubSeq(d, 1, k) : k \in 0..Len(d)}
    IN IF \E c \in comps : IsFile(f, c)
       THEN [ok |-> FALSE, fs |-> f]
       ELSE [ok |-> TRUE,
             fs |-> [q \in DOMAIN f \cup comps |->
                       IF q \in DOMAIN f THEN f[q] ELSE DirNode]]

(***************************************************************************)
(* The JSON-merge collaborator merge(existing_file_path, new_data): the    *)
(* union of the two objects, a key of both taking the new value; an        *)
(* existing file that does not parse contributes nothing.                  *)
(***************************************************************************)
Keys(obj) == {kv[1] : kv \in obj}

MergeJson(existing, new_settings) ==
    IF existing.valid
    THEN {kv \in existing.json : kv[1] \notin Keys(new_settings)} \cup new_settings
    ELSE new_settings

(***************************************************************************)
(* handle_vscode_settings(sub_item, dest_file, ...) with sub_item's        *)
(* content c: [ok, fs, called]; called says the collaborator was called.   *)
(***************************************************************************)
\* a faulty variant: no except clause, a failed merge propagates
handle_vscode_settings_NoFallback(f, c, dest_file, mrg) ==
    LET copied == Copy2(f, c, Basename(dest_file), dest_file)
        plain == [ok |-> copied.ok, fs |-> copied.fs, called |-> FALSE]
    IN IF ~c.valid
       THEN [ok |-> FALSE, fs |-> f, called |-> FALSE]
       ELSE IF Exists(f, dest_file)
       THEN IF mrg = "none"
            THEN plain
            ELSE IF mrg \in {"raises", "bad_result"} \/ ~IsFile(f, dest_file)
            THEN [ok |-> FALSE, fs |-> f, called |-> TRUE]
            ELSE [ok |-> TRUE,
                  fs |-> [f EXCEPT ![dest_file] =
                            FileNode(Json(MergeJson(f[dest_file].data, c.json),
                                          "indent4"))],
                  called |-> TRUE]
       ELSE plain

handle_vscode_settings(f, c, dest_file, mrg) ==
    LET copied == Copy2(f, c, Basename(dest_file), dest_file)
        fallback == [ok |-> copied.ok, fs |-> copied.fs, called |-> FALSE]
    IN IF ~c.valid
       THEN fallback                                   \* json.load raises
       ELSE IF Exists(f, dest_file)
       THEN IF mrg = "none"
            THEN fallback
            ELSE IF mrg \in {"raises", "bad_result"} \/ ~IsFile(f, dest_file)
            \* the collaborator raises, or json.dump raises on what it
            \* returned (line 61, the file already truncated by line 60)
            THEN [fallback EXCEPT !.called = TRUE]
            ELSE [ok |-> TRUE,
                  fs |-> [f EXCEPT ![dest_file] =
                            FileNode(Json(MergeJson(f[dest_file].data, c.json),
                                          "indent4"))],
                  called |-> TRUE]
       ELSE fallback

(***************************************************************************)
(* Release assets.  An asset name is a string; AssetText gives its text as *)
(* a sequence of pieces, so that "contains" and "ends with" are computed.  *)
(***************************************************************************)
AssetSh == "spec-kit-template-claude-sh-v1.0.0.zip"
AssetShExtra == "spec-kit-template-claude-sh-extra-v1.0.0.zip"
AssetPs == "spec-kit-template-claude-ps-v1.0.0.zip"
AssetSum == "spec-kit-template-claude-sh-v1.0.0.zip.sha256"

AssetNames == {AssetSh, AssetShExtra, AssetPs, AssetSum}

AssetText(name) ==
    CASE name = AssetSh ->
           <<TemplatePrefix, "claude", "-", "sh", "-v", "1.0.0", ".zip">>
      [] name = AssetShExtra ->
           <<TemplatePrefix, "claude", "-", "sh", "-extra", "-v", "1.0.0", ".zip">>
      [] name = AssetPs ->
           <<TemplatePrefix, "claude", "-", "ps", "-v", "1.0.0", ".zip">>
      [] name = AssetSum ->
           <<TemplatePrefix, "claude", "-", "sh", "-v", "1.0.0", ".zip", ".sha256">>

Asset(name) == [name |-> name, size |-> Len(AssetText(name)), url |-> <<"url", name>>]

NoAsset == [name |-> "none"]

\* pattern in text
Contains(text, pattern) ==
    \E i \in 0..(Len(text) - Len(pattern)) :
        SubSeq(text, i + 1, i + Len(pattern)) = pattern

\* pattern in asset["name"] and asset["name"].endswith(".zip") with
\* pattern = f"spec-kit-template-{ai_assistant}-{script_type}"
AssetMatches(a, agent, script) ==
    /\ Contains(AssetText(a.name), <<TemplatePrefix, agent, "-", script>>)
    /\ AssetText(a.name)[Len(AssetText(a.name))] = ".zip"

\* a faulty variant: the last matching asset of the listing
SelectAsset_Last(assets, agent, script) ==
    LET idx == {i \in 1..Len(assets) : AssetMatches(assets[i], agent, script)}
    IN IF idx = {} THEN NoAsset
       ELSE assets[CHOOSE i \in idx : \A j \in idx : i >= j]

\* a faulty variant: the first asset of the listing, matching or not
SelectAsset_Any(assets, agent, script) ==
    IF assets = <<>> THEN NoAsset ELSE assets[1]

\* matching_assets[0] if matching_assets else None
SelectAsset(assets, agent, script) ==
    LET idx == {i \in 1..Len(assets) : AssetMatches(assets[i], agent, script)}
    IN IF idx = {} THEN NoAsset
       ELSE assets[CHOOSE i \in idx : \A j \in idx : i <= j]

(***************************************************************************)
(* Inputs.                                                                 *)
(***************************************************************************)
Ver(a, b, c) == <<a, b, c>>

T190 == TN(TemplatePrefix, "claude", "sh", Ver(<<"1">>, <<"9">>, <<"0">>), ".zip")
T1100 == TN(TemplatePrefix, "claude", "sh", Ver(<<"1">>, <<"1", "0">>, <<"0">>), ".zip")
T0110 == TN(TemplatePrefix, "claude", "sh", Ver(<<"0", "1">>, <<"1", "0">>, <<"0">>), ".zip")
T200 == TN(TemplatePrefix, "claude", "sh", Ver(<<"2">>, <<"0">>, <<"0">>), ".zip")
T1000 == TN(TemplatePrefix, "claude", "sh", Ver(<<"1", "0">>, <<"0">>, <<"0">>), ".zip")
TTwoParts == TN(TemplatePrefix, "claude", "sh", <<<<"9">>, <<"9">>>>, ".zip")
TLetter == TN(TemplatePrefix, "claude", "sh", Ver(<<"9">>, <<"x">>, <<"0">>), ".zip")
TRc == TN(TemplatePrefix, "claude", "sh", Ver(<<"9">>, <<"9">>, <<"9">>), "-rc.zip")
TBak == TN(TemplatePrefix, "claude", "sh", Ver(<<"9">>, <<"9">>, <<"9">>), ".zip.bak")
TCopilot == TN(TemplatePrefix, "copilot", "sh", Ver(<<"9">>, <<"9">>, <<"9">>), ".zip")
TPs == TN(TemplatePrefix, "claude", "ps", Ver(<<"9">>, <<"9">>, <<"9">>), ".zip")
TOther == TN("notes-", "claude", "sh", Ver(<<"9">>, <<"9">>, <<"9">>), ".zip")

TemplateNames ==
    {T190, T1100, T0110, T200, T1000, TTwoParts, TLetter, TRc, TBak, TCopilot,
     TPs, TOther}

NoDir == [exists |-> FALSE, files |-> {}]

DirWith(files) == [exists |-> TRUE, files |-> files]

\* the template directories the pipeline is run with
PipelineTemplates ==
    { [inst |-> DirWith({TRc, TCopilot}), extra |-> NoDir],
      [inst |-> DirWith({T190, T1100}), extra |-> NoDir] }

E(path, data) == [path |-> path, data |-> data]

Old == Plain("old")
New == Plain("new")
OldSettings == Json({<<"a", 1>>}, "dest")
NewSettings == Json({<<"b", 2>>}, "archive")
BadSettings == Plain("archive")     \* a settings file that is no JSON

Tree(entries) == ExtractEntries(EmptyTree, <<>>, entries, Len(entries))

\* the current directory a merge-mode run starts in
MergeTrees ==
    { EmptyTree,
      Tree(<<E(<<".vscode", "settings.json">>, OldSettings),
             E(<<"a.txt">>, Old), E(<<"keep.txt">>, Old)>>),
      Tree(<<E(<<"sub", ".vscode", "settings.json">>, OldSettings),
             E(<<"sub", "keep.txt">>, Old), E(<<".vscode", "keep.txt">>, Old)>>),
      Tree(<<E(<<AssetSh>>, Old), E(<<".vscode">>, Old),
             E(<<"a.txt", "inner.txt">>, Old)>>) }

\* the current directory a fresh-mode run starts in; the destination is app
FreshTrees ==
    { EmptyTree,
      Tree(<<E(<<"app", "keep.txt">>, Old)>>),
      Tree(<<E(<<"app">>, Old)>>),
      Tree(<<E(<<"app_temp", "mine.txt">>, Old)>>),
      Tree(<<E(<<"app_temp">>, Old)>>),
      Tree(<<E(<<AssetSh>>, Old)>>) }

Arch(entries) == [ok |-> TRUE, entries |-> entries]

ArchNested ==
    Arch(<<E(<<"proj", "a.txt">>, New),
           E(<<"proj", ".vscode", "settings.json">>, NewSettings)>>)
ArchFlat ==
    Arch(<<E(<<"a.txt">>, New), E(<<".vscode", "settings.json">>, NewSettings)>>)
ArchOneFile == Arch(<<E(<<"a.txt">>, New)>>)
ArchVscodeOnly == Arch(<<E(<<".vscode", "settings.json">>, NewSettings)>>)
ArchDeep ==
    Arch(<<E(<<"sub", ".vscode", "settings.json">>, NewSettings),
           E(<<"docs", "b.txt">>, New)>>)
ArchBadJson ==
    Arch(<<E(<<".vscode", "settings.json">>, BadSettings), E(<<"a.txt">>, New)>>)
ArchEmpty == Arch(<<>>)
ArchCorrupt == [ok |-> FALSE, entries |-> <<>>]    \* not a zip file

Archives ==
    {ArchNested, ArchFlat, ArchOneFile, ArchVscodeOnly, ArchDeep, ArchBadJson,
     ArchEmpty, ArchCorrupt}

NoPath == [loc |-> "none"]
NoMeta == [source |-> "none"]
NoRelease == [has_tag |-> FALSE, assets |-> <<>>]
NoTodo == [src |-> <<>>, items |-> {}, cur |-> "", sub |-> {}]

\* the token strings a source can hold
TokenStrings(c) == {None} \cup StringsUpTo({SP, c}, MaxTokLen)

\* the bodies the release endpoint can answer with
ReleaseBodies ==
    { [has_tag |-> t, assets |-> [i \in 1..k |-> Asset(names[i])]] :
        t \in BOOLEAN, k \in 0..MaxAssets, names \in [1..MaxAssets -> AssetNames] }

\* state every specification starts with, the inputs apart
InitCommon ==
    /\ pc = "start"
    /\ outcome = "running"
    /\ exc = "none"
    /\ fail = "none"
    /\ fs0 = fs
    /\ zip_path = NoPath
    /\ meta = NoMeta
    /\ release_data = NoRelease
    /\ asset = NoAsset
    /\ chunks = 0
    /\ requests = <<>>
    /\ staging = EmptyTree
    /\ todo = NoTodo
    /\ signals = <<>>
    /\ located = NoFile
    /\ cleanups = 0
    /\ merge_calls = {}

\* a call of download_and_extract_template
Init ==
    /\ ai_assistant = "claude"
    /\ script_type = "sh"
    /\ is_current_dir \in BOOLEAN
    /\ \E tv \in {<<TRUE, TRUE>>, <<FALSE, TRUE>>, <<FALSE, FALSE>>} :
          tracker = tv[1] /\ verbose = tv[2]
    /\ merger \in {"none", "ok", "raises", "bad_result"}
    /\ cli_token = None
    /\ env = [GH_TOKEN |-> None, GITHUB_TOKEN |-> None]
    /\ search_dir = "None"
    /\ templates \in PipelineTemplates
    /\ fs \in (IF is_current_dir THEN MergeTrees ELSE FreshTrees)
    /\ archive \in Archives
    /\ InitCommon

\* the parameters and the history, which no step changes
inputs == <<ai_assistant, script_type, is_current_dir, verbose, tracker, merger,
            cli_token, env, search_dir, fs0, archive>>

(***************************************************************************)
(* download_and_extract_template: resolution.                              *)
(***************************************************************************)
\* the calls made on the reporter, when one is supplied
Emit(calls) == IF tracker THEN signals \o calls ELSE signals

\* project_path: the current directory in merge mode, else a new directory
ProjectPath == IF is_current_dir THEN <<>> ELSE <<"app">>

\* project_path.parent / f"{project_path.name}_temp"
TempMoveDir == <<"app_temp">>

\* re.search(r'-v(\d+\.\d+\.\d+)\.zip$', local_template.name), f"v{version}"
LocalRelease(name) ==
    IF /\ Len(name.ver) = 3
       /\ \A i \in 1..3 : IsDigits(name.ver[i])
       /\ name.tail = ".zip"
    THEN <<"v">> \o VersionStr(name)
    ELSE <<"v", "unknown">>

\* zip_path.exists()
ZipExists(f, tpl, zp) ==
    CASE zp.loc = "local" -> tpl[zp.dir].exists /\ zp.name \in tpl[zp.dir].files
      [] zp.loc = "cwd" -> Exists(f, <<zp.name>>)
      [] OTHER -> FALSE

\* a faulty variant: the local template is never used
UseLocal_Never(r) == FALSE

\* line 266: if local_template
UseLocal(r) == r # NoFile

\* lines 263-300: the local lookup and what follows from its result
Resolve ==
    /\ pc = "start"
    /\ \E r \in find_local_template(templates, ai_assistant, script_type, "None") :
        /\ located' = r
        /\ IF UseLocal(r)
           THEN /\ zip_path' = [loc |-> "local", dir |-> r.dir, name |-> r.name]
                /\ meta' = [filename |-> r.name, release |-> LocalRelease(r.name),
                            source |-> "local"]
                /\ signals' = Emit(<<<<"fetch", "add">>, <<"fetch", "complete">>,
                                     <<"download", "add">>, <<"download", "skip">>>>)
                /\ pc' = "prepare"
           ELSE /\ signals' = Emit(<<<<"fetch", "add">>, <<"fetch", "complete">>,
                                     <<"fetch", "start">>>>)
                /\ pc' = "api_get"
                /\ UNCHANGED <<zip_path, meta>>
    /\ UNCHANGED <<inputs, outcome, exc, fail, templates, fs, release_data, asset,
                   chunks, requests, staging, todo, cleanups, merge_calls>>

(***************************************************************************)
(* download_template_from_github.                                          *)
(***************************************************************************)
\* the fetcher's own verbose parameter: verbose and tracker is None
FetcherVerbose == verbose /\ ~tracker

\* what the release endpoint can do: status 0 is a transport error
ApiResponses ==
    {[status |-> st, parses |-> FALSE, body |-> NoRelease] : st \in {0, 404, 200}}
    \cup {[status |-> 200, parses |-> TRUE, body |-> b] : b \in ReleaseBodies}

\* lines 116-138: the release-metadata request
ApiGet ==
    /\ pc = "api_get"
    /\ requests' = Append(requests,
                     [url |-> <<"api">>,
                      headers |-> _github_auth_headers(cli_token, env)])
    /\ \E resp \in ApiResponses :
        IF resp.status = 200 /\ resp.parses
        THEN /\ release_data' = resp.body
             /\ pc' = "select"
             /\ UNCHANGED <<exc, fail>>
        ELSE /\ exc' = "Exit"
             /\ fail' = "fetch"
             /\ pc' = "fetch_exc"
             /\ UNCHANGED release_data
    /\ UNCHANGED <<inputs, outcome, templates, fs, zip_path, meta, asset, chunks,
                   staging, todo, signals, located, cleanups, merge_calls>>

\* The listing is not read again after line 155: from the download request
\* on, and in a run that has failed, only tag_name is kept.
NoListing(r) == [r EXCEPT !.assets = <<>>]

\* lines 140-172: the asset selection
SelectStep ==
    /\ pc = "select"
    /\ LET a == SelectAsset(release_data.assets, ai_assistant, script_type)
       IN IF a = NoAsset
          THEN /\ exc' = "Exit"
               /\ fail' = "select"
               /\ pc' = "fetch_exc"
               /\ release_data' = NoListing(release_data)
               /\ UNCHANGED <<asset, zip_path>>
          ELSE IF FetcherVerbose /\ ~release_data.has_tag
          THEN /\ exc' = "KeyError"         \* release_data['tag_name'], line 168
               /\ fail' = "select"
               /\ pc' = "fetch_exc"
               /\ asset' = a
               /\ release_data' = NoListing(release_data)
               /\ UNCHANGED zip_path
          ELSE /\ asset' = a
               /\ zip_path' = [loc |-> "cwd", name |-> a.name]
               /\ pc' = "dl_request"
               /\ UNCHANGED <<exc, fail, release_data>>
    /\ UNCHANGED <<inputs, outcome, templates, fs, meta, chunks, requests,
                   staging, todo, signals, located, cleanups, merge_calls>>

\* a faulty variant: the except clause leaves the file
DownloadFailed_Keep(f) == f

\* lines 210-216: the download's except clause removes the file
DownloadFailed(f) ==
    IF Exists(f, <<asset.name>>) THEN Remove(f, <<asset.name>>) ELSE f

\* lines 174-189: the asset request, its status, the file opened for writing
DlRequest ==
    /\ pc = "dl_request"
    /\ requests' = Append(requests,
                     [url |-> asset.url,
                      headers |-> _github_auth_headers(cli_token, env)])
    /\ \E st \in {0, 404, 200} :
        IF st = 200
        THEN /\ fs' = WriteFile(fs, <<>>, <<asset.name>>, Plain("partial"))
             /\ chunks' = 0
             /\ pc' = "dl_stream"
             /\ UNCHANGED <<exc, fail>>
        ELSE /\ fs' = DownloadFailed(fs)
             /\ exc' = "Exit"
             /\ fail' = "download"
             /\ pc' = "fetch_exc"
             /\ UNCHANGED chunks
    /\ release_data' = NoListing(release_data)
    /\ UNCHANGED <<inputs, outcome, templates, zip_path, meta, asset, staging,
                   todo, signals, located, cleanups, merge_calls>>

\* lines 190-209: one chunk of the stream is written
DlChunk ==
    /\ pc = "dl_stream"
    /\ chunks < MaxChunks
    /\ chunks' = chunks + 1
    /\ UNCHANGED <<inputs, pc, outcome, exc, fail, templates, fs, zip_path, meta,
                   release_data, asset, requests, staging, todo, signals,
                   located, cleanups, merge_calls>>

\* lines 190-216: the stream breaks
DlError ==
    /\ pc = "dl_stream"
    /\ fs' = DownloadFailed(fs)
    /\ exc' = "Exit"
    /\ fail' = "download"
    /\ pc' = "fetch_exc"
    /\ UNCHANGED <<inputs, outcome, templates, zip_path, meta, release_data, asset,
                   chunks, requests, staging, todo, signals, located, cleanups,
                   merge_calls>>

\* lines 190-227: the stream ends, the metadata record is built
DlEnd ==
    /\ pc = "dl_stream"
    /\ fs' = [fs EXCEPT ![<<asset.name>>] = FileNode(Plain("zip"))]
    /\ IF release_data.has_tag
       THEN /\ meta' = [filename |-> asset.name, size |-> asset.size,
                        release |-> <<"tag">>, asset_url |-> asset.url,
                        source |-> "unset"]
            /\ pc' = "fetch_ret"
            /\ UNCHANGED <<exc, fail>>
       ELSE /\ exc' = "KeyError"            \* release_data["tag_name"], line 224
            /\ fail' = "metadata"
            /\ pc' = "fetch_exc"
            /\ UNCHANGED meta
    /\ UNCHANGED <<inputs, outcome, templates, zip_path, release_data, asset,
                   chunks, requests, staging, todo, signals, located, cleanups,
                   merge_calls>>

\* lines 312-316: the fetcher returned to the pipeline
FetchReturned ==
    /\ pc = "fetch_ret"
    /\ meta' = [meta EXCEPT !.source = "github"]
    /\ signals' = Emit(<<<<"fetch", "complete">>, <<"download", "add">>,
                         <<"download", "complete">>>>)
    /\ release_data' = NoRelease
    /\ asset' = NoAsset
    /\ chunks' = 0
    /\ pc' = "prepare"
    /\ UNCHANGED <<inputs, outcome, exc, fail, templates, fs, zip_path, requests,
                   staging, todo, located, cleanups, merge_calls>>

\* how a run that ends with exception e ends
Ended(e) == IF e = "none" THEN "returned" ELSE IF e = "Exit" THEN "exit1" ELSE "raised"

\* lines 317-323: the fetcher raised; the pipeline reports and re-raises
FetchRaised ==
    /\ pc = "fetch_exc"
    /\ signals' = Emit(<<<<"fetch", "error">>>>)
    /\ pc' = "done"
    /\ outcome' = Ended(exc)
    /\ UNCHANGED <<inputs, exc, fail, templates, fs, zip_path, meta, release_data,
                   asset, chunks, requests, staging, todo, located, cleanups,
                   merge_calls>>

(***************************************************************************)
(* download_and_extract_template: materialization.                         *)
(***************************************************************************)
\* an exception inside the try block of lines 331-415
Raise(step) ==
    /\ pc' = "except"
    /\ exc' = "OSError"
    /\ fail' = step

\* a faulty variant: mkdir(parents=True, exist_ok=True)
Mkdir_ExistOk(f, d) == MkdirP(f, d)

\* line 333: project_path.mkdir(parents=True) fails when the path exists
Mkdir(f, d) == IF Exists(f, d) THEN [ok |-> FALSE, fs |-> f] ELSE MkdirP(f, d)

\* lines 325-333: the extract step starts; fresh mode creates the destination
Prepare ==
    /\ pc = "prepare"
    /\ signals' = Emit(<<<<"extract", "add">>, <<"extract", "start">>>>)
    /\ IF ~is_current_dir
       THEN IF Mkdir(fs, ProjectPath).ok
            THEN /\ fs' = Mkdir(fs, ProjectPath).fs
                 /\ pc' = "open"
                 /\ UNCHANGED <<exc, fail>>
            ELSE /\ Raise("prepare")             \* FileExistsError
                 /\ UNCHANGED fs
       ELSE /\ pc' = "open"
            /\ UNCHANGED <<exc, fail, fs>>
    /\ UNCHANGED <<inputs, outcome, templates, zip_path, meta, release_data, asset,
                   chunks, requests, staging, todo, located, cleanups,
                   merge_calls>>

\* lines 335-341: the archive is opened and its entries are listed
Open ==
    /\ pc = "open"
    /\ IF ZipExists(fs, templates, zip_path) /\ archive.ok
       THEN /\ signals' = Emit(<<<<"zip-list", "start">>, <<"zip-list", "complete">>>>)
            /\ pc' = IF is_current_dir THEN "stage" ELSE "extractall"
            /\ UNCHANGED <<exc, fail>>
       ELSE /\ Raise("open")                     \* BadZipFile, FileNotFoundError
            /\ UNCHANGED signals
    /\ UNCHANGED <<inputs, outcome, templates, fs, zip_path, meta, release_data,
                   asset, chunks, requests, staging, todo, located, cleanups,
                   merge_calls>>

\* the only entry of a directory, when it is a directory; else ""
SingleDir(f, d) ==
    LET items == Children(f, d)
    IN IF Cardinality(items) = 1 /\ \A i \in items : IsDir(f, d \o <<i>>)
       THEN CHOOSE i \in items : TRUE
       ELSE ""

\* lines 344-362: merge mode extracts into a temporary directory and picks
\* the source root
Stage ==
    /\ pc = "stage"
    /\ LET st == ExtractEntries(EmptyTree, <<>>, archive.entries,
                                Len(archive.entries))
           nested == SingleDir(st, <<>>)
           source_dir == IF nested # "" THEN <<nested>> ELSE <<>>
       IN /\ staging' = st
          /\ todo' = [src |-> source_dir, items |-> Children(st, source_dir),
                      cur |-> "", sub |-> {}]
          /\ signals' = Emit(<<<<"extracted-summary", "start">>,
                               <<"extracted-summary", "complete">>>>
                             \o IF nested # ""
                                THEN <<<<"flatten", "add">>, <<"flatten", "complete">>>>
                                ELSE <<>>)
    /\ pc' = "merge_loop"
    /\ UNCHANGED <<inputs, outcome, exc, fail, templates, fs, zip_path, meta,
                   release_data, asset, chunks, requests, located, cleanups,
                   merge_calls>>

\* lines 364-387: one top-level item of the source root
MergeItem ==
    /\ pc = "merge_loop"
    /\ \E item \in todo.items :
        LET src == todo.src \o <<item>>
            dest_path == ProjectPath \o <<item>>
            copied == Copy2(fs, staging[src].data, item, dest_path)
        IN IF IsDir(staging, src)
           THEN IF Exists(fs, dest_path)
                THEN /\ todo' = [todo EXCEPT !.items = @ \ {item}, !.cur = item,
                                   !.sub = {Rel(src, q) :
                                              q \in {r \in Under(staging, src) :
                                                       IsFile(staging, r)}}]
                     /\ pc' = "merge_sub"
                     /\ UNCHANGED <<fs, exc, fail>>
                ELSE /\ fs' = Graft(fs, staging, src, dest_path)     \* copytree
                     /\ todo' = [todo EXCEPT !.items = @ \ {item}]
                     /\ UNCHANGED <<pc, exc, fail>>
           ELSE IF copied.ok
                THEN /\ fs' = copied.fs
                     /\ todo' = [todo EXCEPT !.items = @ \ {item}]
                     /\ UNCHANGED <<pc, exc, fail>>
                ELSE /\ Raise("merge")
                     /\ UNCHANGED <<fs, todo>>
    /\ UNCHANGED <<inputs, outcome, templates, zip_path, meta, release_data, asset,
                   chunks, requests, staging, signals, located, cleanups,
                   merge_calls>>

\* no destination path is the settings special case
IsVscodeSettings_Never(dest_file) == FALSE

\* dest_file.name == "settings.json" and dest_file.parent.name == ".vscode"
IsVscodeSettings(dest_file) ==
    /\ Basename(dest_file) = "settings.json"
    /\ Len(dest_file) >= 2
    /\ Basename(Parent(dest_file)) = ".vscode"

\* lines 370-381: one file of a directory that exists at the destination
MergeSub ==
    /\ pc = "merge_sub"
    /\ \E rel \in todo.sub :
        LET src == todo.src \o <<todo.cur>> \o rel
            dest_file == ProjectPath \o <<todo.cur>> \o rel
            made == MkdirP(fs, Parent(dest_file))
            special == IsVscodeSettings(dest_file)
            handled == handle_vscode_settings(made.fs, staging[src].data,
                                              dest_file, merger)
            copied == Copy2(made.fs, staging[src].data, Basename(rel), dest_file)
            ok == made.ok /\ IF special THEN handled.ok ELSE copied.ok
        IN IF ok
           THEN /\ fs' = IF special THEN handled.fs ELSE copied.fs
                /\ merge_calls' = IF special /\ handled.called
                                  THEN merge_calls \cup {dest_file}
                                  ELSE merge_calls
                /\ todo' = [todo EXCEPT !.sub = @ \ {rel},
                              !.cur = IF todo.sub = {rel} THEN "" ELSE @]
                /\ pc' = IF todo.sub = {rel} THEN "merge_loop" ELSE "merge_sub"
                /\ UNCHANGED <<exc, fail>>
           ELSE /\ Raise("merge")
                /\ merge_calls' = IF made.ok /\ special /\ handled.called
                                  THEN merge_calls \cup {dest_file}
                                  ELSE merge_calls
                /\ UNCHANGED <<fs, todo>>
    /\ UNCHANGED <<inputs, outcome, templates, zip_path, meta, release_data, asset,
                   chunks, requests, staging, signals, located, cleanups>>

\* lines 388-389, 429-431: every item is merged; the temporary directory goes
MergeDone ==
    /\ pc = "merge_loop"
    /\ todo.items = {}
    /\ staging' = EmptyTree
    /\ todo' = NoTodo
    /\ signals' = Emit(<<<<"extract", "complete">>>>)
    /\ pc' = "finally"
    /\ UNCHANGED <<inputs, outcome, exc, fail, templates, fs, zip_path, meta,
                   release_data, asset, chunks, requests, located, cleanups,
                   merge_calls>>

\* lines 391-402: fresh mode extracts into the destination
ExtractAll ==
    /\ pc = "extractall"
    /\ LET after == ExtractEntries(fs, ProjectPath, archive.entries,
                                   Len(archive.entries))
           nested == SingleDir(after, ProjectPath)
       IN /\ fs' = after
          /\ todo' = [todo EXCEPT !.cur = nested]
          /\ signals' = Emit(<<<<"extracted-summary", "start">>,
                               <<"extracted-summary", "complete">>>>
                             \o IF nested = "" THEN <<<<"extract", "complete">>>>
                                ELSE <<>>)
          /\ pc' = IF nested = "" THEN "finally" ELSE "flatten_move"
    /\ UNCHANGED <<inputs, outcome, exc, fail, templates, zip_path, meta,
                   release_data, asset, chunks, requests, staging, located,
                   cleanups, merge_calls>>

\* line 391: extractall fails after k of the entries were written
ExtractAllFails ==
    /\ pc = "extractall"
    /\ \E k \in 0..(Len(archive.entries) - 1) :
        fs' = ExtractEntries(fs, ProjectPath, archive.entries, k)
    /\ Raise("extract")
    /\ UNCHANGED <<inputs, outcome, templates, zip_path, meta, release_data, asset,
                   chunks, requests, staging, todo, signals, located, cleanups,
                   merge_calls>>

\* line 406: shutil.move(nested_dir, temp_move_dir)
FlattenMove ==
    /\ pc = "flatten_move"
    /\ LET moved == ShutilMove(fs, ProjectPath \o <<todo.cur>>, TempMoveDir)
       IN IF moved.ok
          THEN /\ fs' = moved.fs
               /\ pc' = "flatten_rmdir"
               /\ UNCHANGED <<exc, fail>>
          ELSE /\ Raise("flatten")
               /\ UNCHANGED fs
    /\ UNCHANGED <<inputs, outcome, templates, zip_path, meta, release_data, asset,
                   chunks, requests, staging, todo, signals, located, cleanups,
                   merge_calls>>

\* line 408: project_path.rmdir()
FlattenRmdir ==
    /\ pc = "flatten_rmdir"
    /\ IF IsDir(fs, ProjectPath) /\ Children(fs, ProjectPath) = {}
       THEN /\ fs' = Remove(fs, ProjectPath)
            /\ pc' = "flatten_back"
            /\ UNCHANGED <<exc, fail>>
       ELSE /\ Raise("flatten")
            /\ UNCHANGED fs
    /\ UNCHANGED <<inputs, outcome, templates, zip_path, meta, release_data, asset,
                   chunks, requests, staging, todo, signals, located, cleanups,
                   merge_calls>>

\* lines 410-415, 429-431: shutil.move(temp_move_dir, project_path)
FlattenBack ==
    /\ pc = "flatten_back"
    /\ LET moved == ShutilMove(fs, TempMoveDir, ProjectPath)
       IN IF moved.ok
          THEN /\ fs' = moved.fs
               /\ signals' = Emit(<<<<"flatten", "add">>, <<"flatten", "complete">>,
                                    <<"extract", "complete">>>>)
               /\ todo' = NoTodo
               /\ pc' = "finally"
               /\ UNCHANGED <<exc, fail>>
          ELSE /\ Raise("flatten")
               /\ UNCHANGED <<fs, signals, todo>>
    /\ UNCHANGED <<inputs, outcome, templates, zip_path, meta, release_data, asset,
                   chunks, requests, staging, located, cleanups, merge_calls>>

\* the positions inside the try block at which a file system call can fail
\* for a reason of the environment (disk, permissions)
IOSteps ==
    {"open", "stage", "merge_loop", "merge_sub", "flatten_move", "flatten_rmdir",
     "flatten_back"}

\* the next file system call of the try block raises OSError
IOError ==
    /\ pc \in IOSteps
    /\ Raise(pc)
    /\ UNCHANGED <<inputs, outcome, templates, fs, zip_path, meta, release_data,
                   asset, chunks, requests, staging, todo, signals, located,
                   cleanups, merge_calls>>

\* the rollback condition of line 426
ShouldRollback(f) == ~is_current_dir /\ Exists(f, ProjectPath)

\* lines 417-428: the except clause: report, roll back, exit
Rollback ==
    /\ pc = "except"
    /\ signals' = Emit(<<<<"extract", "error">>>>)
    /\ staging' = EmptyTree                  \* the TemporaryDirectory is left
    /\ todo' = NoTodo
    /\ IF ShouldRollback(fs)
       THEN IF IsDir(fs, ProjectPath)
            THEN /\ fs' = Remove(fs, ProjectPath)        \* shutil.rmtree
                 /\ exc' = "Exit"
            ELSE /\ exc' = "OSError"         \* rmtree of a file raises
                 /\ UNCHANGED fs
       ELSE /\ exc' = "Exit"
            /\ UNCHANGED fs
    /\ pc' = "finally"
    /\ UNCHANGED <<inputs, outcome, fail, templates, zip_path, meta, release_data,
                   asset, chunks, requests, located, cleanups, merge_calls>>

\* a faulty variant: the archive is deleted whatever its provenance
ShouldDelete_Always == TRUE

\* line 437
ShouldDelete == meta.source = "github"

\* zip_path.unlink()
Unlinked(f, tpl, zp) ==
    IF zp.loc = "local"
    THEN [fs |-> f,
          templates |-> [tpl EXCEPT ![zp.dir].files = @ \ {zp.name}]]
    ELSE [fs |-> Remove(f, <<zp.name>>), templates |-> tpl]

\* a faulty variant: the cleanup step is always reported complete
CleanupSignal_Complete(deleted) == "complete"

\* lines 441-442, 446-447: the call the cleanup step receives
CleanupSignal(deleted) == IF deleted THEN "complete" ELSE "skip"

\* lines 432-451: the finally clause: the cleanup decision; the run ends
Cleanup ==
    /\ pc = "finally"
    /\ IF ShouldDelete /\ ZipExists(fs, templates, zip_path)
       THEN /\ fs' = Unlinked(fs, templates, zip_path).fs
            /\ templates' = Unlinked(fs, templates, zip_path).templates
            /\ signals' = Emit(<<<<"cleanup", "add">>,
                                 <<"cleanup", CleanupSignal(TRUE)>>>>)
       ELSE /\ signals' = Emit(<<<<"cleanup", "add">>,
                                 <<"cleanup", CleanupSignal(FALSE)>>>>)
            /\ UNCHANGED <<fs, templates>>
    /\ cleanups' = cleanups + 1
    /\ pc' = "done"
    /\ outcome' = Ended(exc)
    /\ UNCHANGED <<inputs, exc, fail, zip_path, meta, release_data, asset, chunks,
                   requests, staging, todo, located, merge_calls>>

Next ==
    \/ Resolve
    \/ ApiGet
    \/ SelectStep
    \/ DlRequest
    \/ DlChunk
    \/ DlError
    \/ DlEnd
    \/ FetchReturned
    \/ FetchRaised
    \/ Prepare
    \/ Open
    \/ Stage
    \/ MergeItem
    \/ MergeSub
    \/ MergeDone
    \/ ExtractAll
    \/ ExtractAllFails
    \/ FlattenMove
    \/ FlattenRmdir
    \/ FlattenBack
    \/ IOError
    \/ Rollback
    \/ Cleanup

Spec == Init /\ [][Next]_vars

(***************************************************************************)
(* A direct call of download_template_from_github (SpecFetch), with every  *)
(* combination of the three token sources.                                 *)
(***************************************************************************)
InitFetch ==
    /\ ai_assistant = "claude"
    /\ script_type = "sh"
    /\ is_current_dir = FALSE
    /\ tracker = FALSE
    /\ verbose \in BOOLEAN
    /\ merger = "none"
    /\ cli_token \in TokenStrings("c")
    /\ env \in [GH_TOKEN : TokenStrings("g"),
                GITHUB_TOKEN : {None, <<SP>>, <<"h">>}]
    /\ search_dir = "None"
    /\ templates = [inst |-> NoDir, extra |-> NoDir]
    /\ fs = EmptyTree
    /\ archive = ArchFlat
    /\ InitCommon

\* the call starts at line 116
FetchCall ==
    /\ pc = "start"
    /\ pc' = "api_get"
    /\ UNCHANGED <<inputs, outcome, exc, fail, templates, fs, zip_path, meta,
                   release_data, asset, chunks, requests, staging, todo, signals,
                   located, cleanups, merge_calls>>

\* line 227: return zip_path, metadata
FetcherReturns ==
    /\ pc = "fetch_ret"
    /\ pc' = "done"
    /\ outcome' = "returned"
    /\ UNCHANGED <<inputs, exc, fail, templates, fs, zip_path, meta, release_data,
                   asset, chunks, requests, staging, todo, signals, located,
                   cleanups, merge_calls>>

\* the exception leaves the function
FetcherRaises ==
    /\ pc = "fetch_exc"
    /\ pc' = "done"
    /\ outcome' = Ended(exc)
    /\ UNCHANGED <<inputs, exc, fail, templates, fs, zip_path, meta, release_data,
                   asset, chunks, requests, staging, todo, signals, located,
                   cleanups, merge_calls>>

NextFetch ==
    \/ FetchCall
    \/ ApiGet
    \/ SelectStep
    \/ DlRequest
    \/ DlChunk
    \/ DlError
    \/ DlEnd
    \/ FetcherReturns
    \/ FetcherRaises

SpecFetch == InitFetch /\ [][NextFetch]_vars

(***************************************************************************)
(* A direct call of find_local_template (SpecLocate), over the contents of *)
(* the installation directory and of an optional second directory.         *)
(***************************************************************************)
\* the sets of at most n of the names
FileSets(names, n) == {S \in SUBSET names : Cardinality(S) <= n}

TemplateDirs(n) == {NoDir} \cup {DirWith(S) : S \in FileSets(TemplateNames, n)}

InitLocate ==
    /\ ai_assistant \in {"claude", "copilot"}
    /\ script_type = "sh"
    /\ is_current_dir = FALSE
    /\ tracker = FALSE
    /\ verbose = FALSE
    /\ merger = "none"
    /\ cli_token = None
    /\ env = [GH_TOKEN |-> None, GITHUB_TOKEN |-> None]
    /\ search_dir \in {"None", InstallDir, ExtraDir}
    /\ templates \in [inst : TemplateDirs(MaxFiles), extra : TemplateDirs(1)]
    /\ fs = EmptyTree
    /\ archive = ArchFlat
    /\ InitCommon

\* lines 46-105 of discovery.py
Locate ==
    /\ pc = "start"
    /\ located' \in find_local_template(templates, ai_assistant, script_type,
                                        search_dir)
    /\ pc' = "done"
    /\ outcome' = "returned"
    /\ UNCHANGED <<inputs, exc, fail, templates, fs, zip_path, meta, release_data,
                   asset, chunks, requests, staging, todo, signals, cleanups,
                   merge_calls>>

NextLocate == Locate

SpecLocate == InitLocate /\ [][NextLocate]_vars

(***************************************************************************)
(* Properties.                                                             *)
(***************************************************************************)
Range(seq) == {seq[i] : i \in 1..Len(seq)}

\* the positions inside download_template_from_github
FetchPcs == {"api_get", "select", "dl_request", "dl_stream", "fetch_ret", "fetch_exc"}

\* the positions inside the try block of lines 331-415
TryPcs ==
    {"open", "stage", "merge_loop", "merge_sub", "extractall", "flatten_move",
     "flatten_rmdir", "flatten_back"}

\* the run reached materialization: a template was resolved
Materializing == meta.source \in {"local", "github"}

\* the run failed in the prepare or the extract step
ExtractionFailed == fail \notin {"none", "fetch", "select", "download", "metadata"}

\* the tree below p, with paths relative to p
Subtree(f, p) == [q \in {Rel(p, r) : r \in Under(f, p)} |-> f[p \o q]]

\* the archive's files with paths relative to its source root: the single
\* top-level directory when there is exactly one item and it is a directory
SourceRootEntries ==
    LET t == Tree(archive.entries)
        n == SingleDir(t, <<>>)
    IN IF n # ""
       THEN {E(Rel(<<n>>, e.path), e.data) : e \in Range(archive.entries)}
       ELSE Range(archive.entries)

SettingsPath == <<".vscode", "settings.json">>

\* C1: whenever find_local_template yields a candidate, the resolved template
\* has source 'local' and no HTTP request is issued at any point of the run;
\* the fetcher is entered, and a request issued, only after the locator
\* returned not-found.
C1_LocalNeverFetches ==
    /\ located # NoFile =>
         /\ meta.source = "local"
         /\ requests = <<>>
         /\ pc \notin FetchPcs
    /\ (requests # <<>> \/ pc \in FetchPcs) => (pc # "start" /\ located = NoFile)

\* C1 witness: a run that found a local template has ended
C1_Witness ==
    /\ pc = "done"
    /\ located # NoFile
    /\ outcome = "returned"
    /\ requests = <<>>

\* C2: once a run that reached materialization has ended, the archive file
\* is gone if and only if its provenance is remote (source 'github'); a local
\* archive still exists, after success and after failure.
C2_ArchiveDeletedIffRemote ==
    (pc = "done" /\ Materializing) =>
        (ZipExists(fs, templates, zip_path) <=> meta.source = "local")

\* C2 witness: a fresh-mode run on a local archive failed in extraction and
\* was rolled back; the archive is still there
C2_Witness ==
    /\ pc = "done"
    /\ meta.source = "local"
    /\ ~is_current_dir
    /\ fail = "extract"
    /\ outcome = "exit1"
    /\ ZipExists(fs, templates, zip_path)

\* C3: in fresh-directory mode a destination directory that already existed
\* before the run started, together with its contents, is never removed or
\* modified by the pipeline, whatever step fails.
C3_ExistingDestinationKept ==
    (~is_current_dir /\ IsDir(fs0, ProjectPath)) =>
        \A p \in Under(fs0, ProjectPath) : Exists(fs, p) /\ fs[p] = fs0[p]

\* C4: fresh-directory materialization against a destination directory that
\* already exists fails at the prepare step, before any archive entry is
\* listed or extracted, ends with the hard-exit failure signal, and never puts
\* archive content into the existing directory.
C4_ExistingDestinationFailsAtPrepare ==
    (~is_current_dir /\ IsDir(fs0, ProjectPath)) =>
        /\ pc \notin TryPcs
        /\ \A i \in 1..Len(signals) :
             signals[i][1] \notin {"zip-list", "extracted-summary", "flatten"}
        /\ (pc \in {"except", "finally"} \/ (pc = "done" /\ Materializing)) =>
             fail = "prepare"
        /\ (pc = "done" /\ Materializing) => outcome = "exit1"
        /\ \A p \in Under(fs, ProjectPath) : Exists(fs0, p) /\ fs[p] = fs0[p]

\* C4 witness: such a run has ended
C4_Witness ==
    /\ pc = "done"
    /\ ~is_current_dir
    /\ IsDir(fs0, <<"app">>)
    /\ fail = "prepare"
    /\ outcome = "exit1"

\* C5: when the prepare or extract step fails, a fresh-mode destination this
\* run created no longer exists once the run has ended; in merge mode the
\* except clause performs no rollback (it changes nothing in the file system,
\* so what was copied remains); and in both modes the run ends with the
\* failure signal.
C5_FailureRollback ==
    /\ [](pc = "done" /\ ExtractionFailed =>
            /\ outcome = "exit1"
            /\ (~is_current_dir /\ ~Exists(fs0, ProjectPath)) =>
                 ~Exists(fs, ProjectPath))
    /\ [][(pc = "except" /\ is_current_dir) => fs' = fs]_vars

\* C6: in fresh-directory mode, after a successful run the destination holds
\* exactly the contents of the archive's only top-level directory at its own
\* root when the archive has one (no subdirectory of that name left), and the
\* archive as it is otherwise (several top-level items, one top-level file).
C6_FreshFlatten ==
    (pc = "done" /\ outcome = "returned" /\ ~is_current_dir) =>
        Subtree(fs, ProjectPath) =
            LET t == Tree(archive.entries)
                n == SingleDir(t, <<>>)
            IN IF n # "" THEN Subtree(t, <<n>>) ELSE t

\* what C7 says of the settings file, for the archive's settings content c
C7_Post(c) ==
    /\ (merger = "ok" /\ c.valid) =>
         /\ IsFile(fs, SettingsPath)
         /\ fs[SettingsPath].data.valid
         /\ fs[SettingsPath].data.json = MergeJson(fs0[SettingsPath].data, c.json)
    /\ merger = "none" => fs[SettingsPath] = FileNode(c)

\* C7 as stated: in merge mode, when the destination has .vscode/settings.json
\* and the archive contains .vscode/settings.json, after extraction the file
\* is the merge collaborator's result over the existing file and the
\* archive's data when a collaborator is supplied, and the archive's version
\* verbatim when none is.
C7_SettingsMerged_AsStated ==
    (pc = "done" /\ outcome = "returned" /\ is_current_dir
       /\ IsFile(fs0, SettingsPath)) =>
        \A e \in Range(archive.entries) :
            e.path = SettingsPath => C7_Post(e.data)

\* C7 amended: the same, when the archive's source root (the single nested
\* root directory when the archive has exactly one top-level item and it is a
\* directory, else the archive root) contains .vscode/settings.json.
C7_SettingsMerged ==
    (pc = "done" /\ outcome = "returned" /\ is_current_dir
       /\ IsFile(fs0, SettingsPath)) =>
        \A e \in SourceRootEntries :
            e.path = SettingsPath => C7_Post(e.data)

\* C7 witness: existing {"a":1} and archive {"b":2} gave {"a":1,"b":2}
C7_Witness ==
    /\ pc = "done"
    /\ outcome = "returned"
    /\ is_current_dir
    /\ merger = "ok"
    /\ IsFile(fs0, SettingsPath)
    /\ IsFile(fs, SettingsPath)
    /\ fs0[SettingsPath].data.json = {<<"a", 1>>}
    /\ \E e \in SourceRootEntries :
         e.path = SettingsPath /\ e.data.json = {<<"b", 2>>}
    /\ fs[SettingsPath].data.json = {<<"a", 1>>, <<"b", 2>>}

\* C8: if the asset download fails (non-200 status, or a transport error in
\* the middle of the stream after the file was created), no file exists at
\* the download path when the error propagates, and the run ends with the
\* failure signal.
C8_NoPartialFile ==
    fail = "download" =>
        /\ ~Exists(fs, <<asset.name>>)
        /\ exc = "Exit"
        /\ pc = "done" => outcome = "exit1"

\* C8 witness: the stream broke after a chunk was written to the file
C8_Witness ==
    /\ pc = "done"
    /\ fail = "download"
    /\ chunks > 0
    /\ outcome = "exit1"

\* the files of the searched directories
SearchedFiles ==
    {[dir |-> d, name |-> n] :
       <<d, n>> \in {x \in Range(SearchDirs(search_dir)) \X TemplateNames :
                      templates[x[1]].exists /\ x[2] \in templates[x[1]].files}}

\* those whose name matches the full naming pattern
FullMatches ==
    {c \in SearchedFiles : VersionPatternMatches(c.name, ai_assistant, script_type)}

\* C9: find_local_template returns a file of the searched directories that
\* matches the full naming pattern and whose (major, minor, patch), compared
\* as integers, is not exceeded by any such file; it returns not-found exactly
\* when no file matches the full pattern.
C9_GreatestVersion ==
    pc = "done" =>
        IF FullMatches = {}
        THEN located = NoFile
        ELSE /\ located \in FullMatches
             /\ \A m \in FullMatches :
                  ~TupleGT(VersionParts(m.name), VersionParts(located.name))

\* C9 witness: v1.10.0 was returned from a directory that also holds v1.9.0
C9_Witness ==
    /\ pc = "done"
    /\ {T190, T1100} \subseteq templates[InstallDir].files
    /\ located = [dir |-> InstallDir, name |-> T1100]

\* a source holds a token: a value that is not empty or whitespace only
Usable(s) == s # None /\ Strip(s) # <<>>

TokenSources == <<cli_token, env.GH_TOKEN, env.GITHUB_TOKEN>>

\* C10: every HTTP request of the fetcher carries no Authorization header
\* when no token is configured through the parameter or the environment, and
\* carries exactly 'Authorization: Bearer <token>', for a configured token,
\* when one is.
C10_AuthHeader ==
    \A i \in 1..Len(requests) :
        IF \E k \in 1..3 : Usable(TokenSources[k])
        THEN \E k \in 1..3 :
               /\ Usable(TokenSources[k])
               /\ requests[i].headers =
                    {<<"Authorization", Bearer(Strip(TokenSources[k]))>>}
        ELSE requests[i].headers = {}

\* the token of the first source, in priority order, that holds a usable value
FirstUsable ==
    IF Usable(cli_token) THEN Strip(cli_token)
    ELSE IF Usable(env.GH_TOKEN) THEN Strip(env.GH_TOKEN)
    ELSE IF Usable(env.GITHUB_TOKEN) THEN Strip(env.GITHUB_TOKEN)
    ELSE None

\* C11: the bearer token every request carries is the one of the first of
\* (explicit parameter, GH_TOKEN, GITHUB_TOKEN) that holds a usable value, an
\* empty or whitespace-only value being passed over; the header is absent
\* only when all three sources are empty, whitespace-only or unset.
C11_TokenPriority ==
    \A i \in 1..Len(requests) :
        requests[i].headers =
            IF FirstUsable = None
            THEN {}
            ELSE {<<"Authorization", Bearer(FirstUsable)>>}

\* the directories the caller asked to search: the installation directory
\* and the optional search_dir
AskedDirs == {InstallDir} \cup ({search_dir} \ {"None"})

\* one of them does not exist
AbsentSearched == \E d \in AskedDirs : ~templates[d].exists

\* the matching files of those that exist
ExistingMatches ==
    {x \in AskedDirs \X TemplateNames :
        /\ templates[x[1]].exists
        /\ x[2] \in templates[x[1]].files
        /\ VersionPatternMatches(x[2], ai_assistant, script_type)}

\* C12: when a search directory does not exist, find_local_template raises no
\* error; the absent directory is skipped and the existing ones are still
\* searched, so it returns not-found exactly when no existing searched
\* directory holds a matching file (in particular when none exists), and what
\* it returns is a file of an existing directory; the call modifies no file.
C12_AbsentDirectorySkipped ==
    /\ []((pc = "done" /\ AbsentSearched) =>
            /\ outcome = "returned"
            /\ exc = "none"
            /\ located = NoFile <=> ExistingMatches = {}
            /\ located # NoFile => <<located.dir, located.name>> \in ExistingMatches)
    /\ [][templates' = templates /\ fs' = fs]_vars

\* C12 witness: the installation directory is absent and the file was found
\* in the second directory
C12_Witness ==
    /\ pc = "done"
    /\ ~templates[InstallDir].exists
    /\ search_dir = ExtraDir
    /\ located # NoFile
    /\ located.dir = ExtraDir

\* the number of requests sent to a URL
Sent(url) == Cardinality({i \in 1..Len(requests) : requests[i].url = url})

\* C13: a run in which a step failed (release metadata, asset selection,
\* download, provenance record, prepare, extraction) ends with the hard-exit
\* failure signal, never with a normal return and never with another
\* uncaught error; and nothing is retried: each of the two HTTP requests is
\* issued at most once per run.
C13_HardExitNoRetry ==
    /\ (pc = "done" /\ fail # "none") => outcome = "exit1"
    /\ \A i \in 1..Len(requests) : Sent(requests[i].url) <= 1
    /\ Len(requests) <= 2

\* the places of the listing whose asset matches the requested template
MatchingPlaces ==
    {i \in 1..Len(release_data.assets) :
        AssetMatches(release_data.assets[i], ai_assistant, script_type)}

\* C14: the asset selected is the first of the release's listing, in listing
\* order, whose name contains 'spec-kit-template-{assistant}-{script_type}'
\* and ends with '.zip', never a later matching one; the download request,
\* the file written and the returned metadata (filename, size, asset_url)
\* all belong to that one asset.
C14_FirstMatchingAsset ==
    /\ pc = "dl_request" =>
         \E i \in MatchingPlaces :
            /\ asset = release_data.assets[i]
            /\ \A j \in MatchingPlaces : i <= j
            /\ zip_path = [loc |-> "cwd", name |-> asset.name]
    /\ pc \in {"dl_stream", "fetch_ret"} =>
         /\ requests[Len(requests)].url = asset.url
         /\ IsFile(fs, <<asset.name>>)
    /\ (pc \in {"fetch_ret", "done"} /\ exc = "none") =>
         /\ meta.filename = asset.name
         /\ meta.size = asset.size
         /\ meta.asset_url = asset.url
         /\ zip_path = [loc |-> "cwd", name |-> asset.name]
         /\ IsFile(fs, <<asset.name>>)

\* C14 witness: the listing holds two different matching assets and the
\* first one was selected
C14_Witness ==
    /\ pc = "dl_request"
    /\ MatchingPlaces = {1, 2}
    /\ release_data.assets[1] # release_data.assets[2]
    /\ asset = release_data.assets[1]

ApiUrl == <<"api">>

\* a request other than the release-metadata request was issued
DownloadRequested == \E i \in 1..Len(requests) : requests[i].url # ApiUrl

\* C15: the asset download request is issued, and a file created at the
\* download path, only after the release-metadata request was answered with
\* a body that parsed and lists a matching asset; a run whose metadata call
\* fails (status not 200, body unparsable) or whose listing has no matching
\* asset fails with the hard exit, with only the metadata request issued and
\* no file written.
C15_DownloadOnlyAfterMetadata ==
    /\ DownloadRequested =>
         /\ Len(requests) = 2
         /\ requests[1].url = ApiUrl
         /\ asset # NoAsset
         /\ AssetMatches(asset, ai_assistant, script_type)
         /\ requests[2].url = asset.url
         /\ fail \notin {"fetch", "select"}
    /\ fs # fs0 => DownloadRequested
    /\ (fail = "fetch" \/ (fail = "select" /\ asset = NoAsset)) =>
         /\ exc = "Exit"
         /\ requests = <<[url |-> ApiUrl,
                          headers |-> _github_auth_headers(cli_token, env)]>>
         /\ fs = fs0
         /\ pc = "done" => outcome = "exit1"

\* C15 witness: the listing had no matching asset and the run has failed
C15_Witness ==
    /\ pc = "done"
    /\ fail = "select"
    /\ asset = NoAsset
    /\ outcome = "exit1"
    /\ ~DownloadRequested

\* C16: after a successful merge-mode run every file of the archive's source
\* root is present at the same relative path under the destination with the
\* archive's content - top-level files, subtrees of new directories and files
\* of directories that collided with an existing one - the only exception
\* being <dest>/.vscode/settings.json.
C16_MergeCopiesEveryFile ==
    (pc = "done" /\ outcome = "returned" /\ is_current_dir) =>
        \A e \in SourceRootEntries :
            \/ e.path = SettingsPath
            \/ /\ IsFile(fs, e.path)
               /\ fs[e.path] = FileNode(e.data)

\* C17: the JSON-merge special case applies to exactly one path,
\* <dest>/.vscode/settings.json: the merge collaborator is called for no
\* other destination file, and after a successful merge-mode run every other
\* file of the source root that replaced an existing destination file, a
\* settings.json of a deeper .vscode directory included, has the archive's
\* content verbatim.
C17_OnlyTopLevelSettingsMerged ==
    /\ is_current_dir => merge_calls \subseteq {SettingsPath}
    /\ (pc = "done" /\ outcome = "returned" /\ is_current_dir) =>
         \A e \in SourceRootEntries :
            (e.path # SettingsPath /\ IsFile(fs0, e.path)) =>
                /\ IsFile(fs, e.path)
                /\ fs[e.path] = FileNode(e.data)

\* e is the archive's settings file and its merge into the destination's
\* .vscode directory fails: the archive's file is not valid JSON, or a
\* destination settings file exists and the collaborator raises or returns
\* what cannot be written
FailingMerge(e) ==
    /\ is_current_dir
    /\ IsDir(fs0, Parent(SettingsPath))
    /\ ~IsDir(fs0, SettingsPath)
    /\ e \in SourceRootEntries
    /\ e.path = SettingsPath
    /\ \/ ~e.data.valid
       \/ IsFile(fs0, SettingsPath) /\ merger \in {"raises", "bad_result"}

\* C18: a failure of the settings-file JSON merge never aborts the run: no
\* merge step raises, and when no other step fails the run returns with the
\* destination settings file overwritten by the archive's version and every
\* other file of the source root copied.
C18_MergeFailureFallsBack ==
    \A e \in SourceRootEntries :
        FailingMerge(e) =>
            /\ fail # "merge"
            /\ (pc = "done" /\ Materializing /\ fail = "none") =>
                 /\ outcome = "returned"
                 /\ fs[SettingsPath] = FileNode(e.data)
                 /\ \A o \in SourceRootEntries :
                      IsFile(fs, o.path) /\ fs[o.path] = FileNode(o.data)

\* C18 witness: the collaborator raised and the run returned with the
\* archive's settings and the archive's other file
C18_Witness ==
    /\ pc = "done"
    /\ outcome = "returned"
    /\ merger = "raises"
    /\ archive = ArchFlat
    /\ merge_calls = {SettingsPath}
    /\ \E e \in SourceRootEntries :
         FailingMerge(e) /\ fs[SettingsPath] = FileNode(e.data)

\* the places of the terminal calls (complete, error, skip) a step received
Terminal(key) ==
    {i \in 1..Len(signals) :
        signals[i][1] = key /\ signals[i][2] \in {"complete", "error", "skip"}}

\* C19: in a run that reaches materialization the cleanup decision is taken
\* exactly once, by the step that ends the run (after the extraction and
\* after any rollback), and nothing in the file system changes after it; with
\* a reporter, 'extract' receives exactly one terminal call (complete on
\* success, error on failure) and after it 'cleanup' receives exactly one,
\* the last call of the run (complete when the archive was deleted, skip when
\* it was preserved).
C19_CleanupOnceAndLast ==
    /\ [](/\ pc # "done" => cleanups = 0
          /\ (pc = "done" /\ Materializing) => cleanups = 1
          /\ (pc = "done" /\ Materializing /\ tracker) =>
               /\ Cardinality(Terminal("extract")) = 1
               /\ Terminal("cleanup") = {Len(signals)}
               /\ \A i \in Terminal("extract") :
                    /\ i < Len(signals)
                    /\ signals[i][2] = IF fail = "none" THEN "complete" ELSE "error"
               /\ signals[Len(signals)][2] =
                    IF ZipExists(fs, templates, zip_path) THEN "skip" ELSE "complete")
    /\ [][/\ cleanups' # cleanups =>
               (pc = "finally" /\ pc' = "done" /\ staging = EmptyTree)
          /\ cleanups = 1 => (fs' = fs /\ templates' = templates)]_vars

\* C19 witness: a remote fresh-mode run with a reporter failed in the
\* extraction, was rolled back and then deleted the archive
C19_Witness ==
    /\ pc = "done"
    /\ tracker
    /\ ~is_current_dir
    /\ meta.source = "github"
    /\ fail = "extract"
    /\ cleanups = 1
    /\ signals[Len(signals)] = <<"cleanup", "complete">>
    /\ ~ZipExists(fs, templates, zip_path)

\* C20: after a run that took the remote path and selected an asset has
\* ended, no file remains at the download path: on success, on an extraction
\* failure and on a failure at any point after the asset file was created,
\* the failure to build the provenance record after the stream completed
\* (release metadata without tag_name) included.
C20_NoArchiveLeftAfterRemoteRun ==
    (pc = "done" /\ zip_path # NoPath /\ zip_path.loc = "cwd") =>
        ~Exists(fs, <<zip_path.name>>)

\* the relative paths of the files of the archive's source root
SourceRootPaths == {e.path : e \in SourceRootEntries}

\* C21: in merge mode every file that existed in the destination before the
\* run and whose relative path does not occur in the archive's source root
\* is unchanged once the run has ended, on success and on failure, for local
\* and for remote provenance.
C21_MergeLeavesOtherFiles ==
    (pc = "done" /\ is_current_dir) =>
        \A p \in DOMAIN fs0 :
            (IsFile(fs0, p) /\ p \notin SourceRootPaths) =>
                (Exists(fs, p) /\ fs[p] = fs0[p])

\* C22: the fresh-mode flatten step touches nothing outside the destination:
\* once a run has ended, successfully or not, the destination's parent holds
\* no '<name>_temp' entry that was absent before the run, and a sibling
\* '<name>_temp' that existed before the run is unchanged and its contents do
\* not appear inside the destination.
C22_SiblingTempUntouched ==
    (pc = "done" /\ ~is_current_dir) =>
        /\ ~Exists(fs0, TempMoveDir) => ~Exists(fs, TempMoveDir)
        /\ Exists(fs0, TempMoveDir) =>
             /\ Exists(fs, TempMoveDir)
             /\ Subtree(fs, TempMoveDir) = Subtree(fs0, TempMoveDir)
             /\ \A p \in Under(fs0, TempMoveDir) \ {TempMoveDir} :
                  ~Exists(fs, ProjectPath \o Rel(TempMoveDir, p))

\* C23: with a reporter, the calls each step key receives follow the
\* lifecycle add, then optionally start, then exactly one of complete, skip,
\* error: no key receives start, complete, skip or error before it was
\* added, and no key receives a further call after a terminal one.
C23_ReporterLifecycle ==
    \A i \in 1..Len(signals) :
        /\ signals[i][2] # "add" =>
             \E j \in 1..(i - 1) : signals[j] = <<signals[i][1], "add">>
        /\ \A j \in 1..(i - 1) :
             signals[j][1] = signals[i][1] =>
                 signals[j][2] \notin {"complete", "skip", "error"}

====
